---- MODULE Spec2Model ----
(***************************************************************************)
(* Syndicated loan portfolio management: the loan accounting core          *)
(* (app/loan_manager.py LoanManager, app/models.py Loan) over a relational *)
(* store reached through SQLAlchemy sessions (app/__init__.py,             *)
(* app/db/__init__.py).                                                    *)
(*                                                                         *)
(* The store (loans, portions, payments) holds the committed rows.  Every  *)
(* caller works through its own session.  A session keeps, for every Loan  *)
(* object it has loaded, the relationship collections it has lazily loaded *)
(* (Loan.syndicate_portions, Loan.payments); rows added by foreign key     *)
(* only (loan_id=...) do not enter a loaded collection, and a loaded       *)
(* collection is reloaded only after the session expired it               *)
(* (expire_on_commit) or forgot the object (close).                        *)
(*                                                                         *)
(* Amounts are Python floats.  They are modelled as a binary floating      *)
(* point format with MantBits significant bits whose smallest step is 1:   *)
(* every arithmetic result is rounded to nearest, ties to even (Fl).       *)
(* Dates are the integers yyyymmdd, so that date order is integer order.   *)
(***************************************************************************)
EXTENDS Integers, Sequences, FiniteSets, TLC

VARIABLES
    loans,      \* table loans: sequence of rows, Loan.id = index
    portions,   \* table syndicate_portions: set of rows
    payments,   \* table payments: set of rows
    covenants,  \* table covenants: set of rows
    nextId,     \* next ids of the tables whose rows are never deleted
    session,    \* per caller: the ORM session (expire_on_commit, loaded collections)
    pc,         \* per caller: position inside an operation run step by step
    frame,      \* per caller: arguments and locals of the operation in progress
    last        \* per caller: the last call that returned or raised

vars == <<loans, portions, payments, covenants, nextId, session, pc, frame, last>>

(* ------------------------------ bounds -------------------------------- *)

MaxLoans == 2
MaxPortions == 2
MaxPayments == 2
MantBits == 3
MaxScheduled == 4
MaxPaymentId == 8
MaxCovenants == 1

(* ------------------------------ floats -------------------------------- *)

Abs(x) == IF x < 0 THEN -x ELSE x

RECURSIVE Pow2(_)
Pow2(n) == IF n = 0 THEN 1 ELSE 2 * Pow2(n - 1)

\* The spacing of the floats around magnitude q (q a natural number).
RECURSIVE Ulp(_)
Ulp(q) == IF q < Pow2(MantBits) THEN 1 ELSE 2 * Ulp(q \div 2)

\* The float nearest to the rational num/den (den > 0), ties to even.
Fl(num, den) ==
    LET a == Abs(num)
        u == Ulp(a \div den)
        d == den * u
        n == a \div d
        r == a - n * d
        m == IF 2 * r > d THEN n + 1
             ELSE IF 2 * r < d THEN n
             ELSE n + (n % 2)
    IN  IF num < 0 THEN -(m * u) ELSE m * u

FAdd(x, y) == Fl(x + y, 1)
FSub(x, y) == Fl(x - y, 1)
FMul(x, y) == Fl(x * y, 1)
FDiv(x, y) == IF y < 0 THEN Fl(-x, -y) ELSE Fl(x, y)

IsFloat(x) == Fl(x, 1) = x

(* ------------------------------ the rows ------------------------------ *)

None == "None"

LoanStatus == {"PENDING", "ACTIVE", "PAID_OFF", "DEFAULT", "RESTRUCTURED"}

RiskRating == {"AAA", "AA", "A", "BBB", "BB", "B", "CCC", "CC", "C", "D"}

LoanIds == 1..Len(loans)

\* the rows of a collection in id order, as the database returns them
RECURSIVE ById(_)
ById(rows) ==
    IF rows = {} THEN <<>>
    ELSE LET hi == CHOOSE r \in rows : \A q \in rows : q.id <= r.id
         IN  Append(ById(rows \ {hi}), hi)

\* Python's sum(xs): accumulated from 0, left to right
RECURSIVE FSum(_)
FSum(xs) ==
    IF xs = <<>> THEN 0
    ELSE FAdd(FSum(SubSeq(xs, 1, Len(xs) - 1)), xs[Len(xs)])

\* Loan.total_syndicated over a collection of portion rows
total_syndicated(coll) ==
    LET ps == ById(coll) IN FSum([i \in 1..Len(ps) |-> ps[i].amount])

\* Loan.remaining_principal over a loan row and a collection of payment rows
remaining_principal(loan, coll) ==
    LET ps == ById({p \in coll : ~p.is_scheduled})
    IN  FSub(loan.amount, FSum([i \in 1..Len(ps) |-> ps[i].principal_amount]))

\* the rows of a loan as the database holds them
PortionsOf(l) == {p \in portions : p.loan_id = l}
PaymentsOf(l) == {p \in payments : p.loan_id = l}

\* the derived values of loan l over the committed rows
TotalSyndicated(l) == total_syndicated(PortionsOf(l))
RemainingPrincipal(l) == remaining_principal(loans[l], PaymentsOf(l))

(* ------------------------------ sessions ------------------------------ *)

Callers == {1, 2}

Unloaded == [loaded |-> FALSE, rows |-> {}]

\* sessionmaker(bind=engine, expire_on_commit=e)(): nothing loaded yet
NoPending == [deleted |-> {}, added |-> {}]

\* sessionmaker(bind=engine, expire_on_commit=e)(): nothing loaded yet, no
\* transaction open.  pending is the work of the open transaction on table
\* payments that no commit has followed: rows deleted, rows added.  datetimes
\* is the loans whose date attributes the session still holds as the datetime
\* objects create_loan was given, where the table (Column(Date)) holds dates
NewSession(e) ==
    [expire_on_commit |-> e,
     syndicate_portions |-> [l \in 1..MaxLoans |-> Unloaded],
     payments |-> [l \in 1..MaxLoans |-> Unloaded],
     pending |-> NoPending,
     datetimes |-> {}]

\* first access to loan.syndicate_portions loads the rows of table tbl; a
\* collection already loaded is returned as it is
LoadPortions(s, l, tbl) ==
    IF s.syndicate_portions[l].loaded THEN s
    ELSE [s EXCEPT !.syndicate_portions[l] =
             [loaded |-> TRUE, rows |-> {p \in tbl : p.loan_id = l}]]

\* first access to loan.payments
LoadPayments(s, l, tbl) ==
    IF s.payments[l].loaded THEN s
    ELSE [s EXCEPT !.payments[l] =
             [loaded |-> TRUE, rows |-> {p \in tbl : p.loan_id = l}]]

\* session.commit(): the transaction ends; with expire_on_commit every loaded
\* attribute is expired
Commit(s) ==
    IF s.expire_on_commit
    THEN [s EXCEPT !.syndicate_portions = [l \in 1..MaxLoans |-> Unloaded],
                   !.payments = [l \in 1..MaxLoans |-> Unloaded],
                   !.pending = NoPending,
                   !.datetimes = {}]
    ELSE [s EXCEPT !.pending = NoPending]

\* table payments as the queries of caller c's session see it, and as the
\* session's next commit leaves it: the committed rows with the work of the
\* open transaction applied
View(c) == (payments \ session[c].pending.deleted) \cup session[c].pending.added

\* the open transaction that turns the committed table into view
PendingFor(view) == [deleted |-> payments \ view, added |-> view \ payments]

\* the rowid SQLite gives the next row inserted into tbl: one more than the
\* largest in use (Column(Integer, primary_key=True), no AUTOINCREMENT)
NextRowId(tbl) ==
    IF tbl = {} THEN 1
    ELSE 1 + (CHOOSE i \in {p.id : p \in tbl} : \A p \in tbl : p.id <= i)

\* session.close(): the open transaction is rolled back and the session forgets
\* every object it holds
close_session(c) ==
    /\ pc[c] = "idle"
    /\ session[c] # NewSession(session[c].expire_on_commit)
    /\ session' = [session EXCEPT ![c] = NewSession(@.expire_on_commit)]
    /\ UNCHANGED <<loans, portions, payments, nextId, pc, frame, last, covenants>>

(* ----------------------------- operations ----------------------------- *)

\* last.n alternates with every call, so that a call repeated with the same
\* outcome is still a step; replaced is the rows a schedule_payments call
\* deleted
NoCall ==
    [n |-> 0, caller |-> 0, op |-> "none", args |-> <<>>, result |-> "none",
     msg |-> "", value |-> 0, replaced |-> {}]

\* the call returned value: the id of the row it created or updated
Returned(c, op, args, value) ==
    [n |-> 1 - last.n, caller |-> c, op |-> op, args |-> args, result |-> "ok",
     msg |-> "", value |-> value, replaced |-> {}]

\* the call raised an exception of this kind: LoanManager raises ValueError for
\* every failed validation and every unknown loan, told apart by the message
Raised(c, op, args, kind, msg) ==
    [n |-> 1 - last.n, caller |-> c, op |-> op, args |-> args,
     result |-> kind, msg |-> msg, value |-> 0, replaced |-> {}]

\* mutant of LoanNumberExists: the uniqueness query finds nothing
LoanNumberExists_never(n) == FALSE

\* self.db.query(Loan).filter(Loan.loan_number == n).first()
LoanNumberExists(n) == \E l \in LoanIds : loans[l].loan_number = n

\* the dates of the call are datetime objects (a.date_type = "datetime", as
\* the signature of create_loan announces and ui/loan_view.py passes), with
\* times of day a.origination_time and a.maturity_time in hours, and not date
\* objects (no such fields)
GivenDatetimes(a) == "date_type" \in DOMAIN a /\ a.date_type = "datetime"

\* the two date arguments as Python orders them: dates by day, datetimes by
\* day and time
OriginationStamp(a) ==
    a.origination_date * 100 + (IF GivenDatetimes(a) THEN a.origination_time ELSE 0)
MaturityStamp(a) ==
    a.maturity_date * 100 + (IF GivenDatetimes(a) THEN a.maturity_time ELSE 0)

\* mutant of CreateLoanError: equal dates pass the date validation
CreateLoanError_equal_dates_pass(a) ==
    IF MaturityStamp(a) < OriginationStamp(a)
    THEN "Maturity date must be after origination date"
    ELSE IF a.amount <= 0 THEN "Loan amount must be positive"
    ELSE IF LoanNumberExists(a.loan_number) THEN "already exists"
    ELSE ""

\* the first failed validation of create_loan, or "" when all pass
CreateLoanError(a) ==
    IF MaturityStamp(a) <= OriginationStamp(a)
    THEN "Maturity date must be after origination date"
    ELSE IF a.amount <= 0 THEN "Loan amount must be positive"
    ELSE IF LoanNumberExists(a.loan_number) THEN "already exists"
    ELSE ""

\* mutant of StatusArgument: the status passed is ignored
StatusArgument_ignored(a) == "PENDING"

\* the parameter status: LoanStatus = LoanStatus.PENDING: the value passed,
\* the default when the argument is omitted (a has no field status)
StatusArgument(a) == IF "status" \in DOMAIN a THEN a.status ELSE "PENDING"

\* Loan(...): the row create_loan builds from its arguments, as table loans
\* stores it: Column(Date) keeps the day of a datetime and drops its time
NewLoan(a) ==
    [loan_number |-> a.loan_number, borrower_id |-> a.borrower_id,
     amount |-> a.amount, origination_date |-> a.origination_date,
     maturity_date |-> a.maturity_date, interest_rate |-> a.interest_rate,
     purpose |-> a.purpose, risk_rating |-> a.risk_rating,
     status |-> StatusArgument(a)]

\* self.db.add(loan): the session holds the new loan object with the
\* attribute values it was built with
AddLoan(s, id, a) ==
    IF GivenDatetimes(a) THEN [s EXCEPT !.datetimes = @ \cup {id}] ELSE s

\* mutant of UniqueViolation: the column carries no unique constraint
UniqueViolation_unenforced(n) == FALSE

\* loan_number = Column(String(20), unique=True): the INSERT of a number the
\* table already holds fails
UniqueViolation(n) == \E l \in LoanIds : loans[l].loan_number = n

create_loan(c, a) ==
    /\ pc[c] = "idle"
    /\ LET err == CreateLoanError(a) IN
       IF err # ""
       THEN /\ last' = Raised(c, "create_loan", a, "ValueError", err)
            /\ UNCHANGED <<loans, portions, payments, nextId, session, pc, frame, covenants>>
       ELSE IF UniqueViolation(a.loan_number)
       THEN /\ last' = Raised(c, "create_loan", a, "IntegrityError",
                              "UNIQUE constraint failed: loans.loan_number")
            /\ UNCHANGED <<loans, portions, payments, nextId, session, pc, frame, covenants>>
       ELSE /\ Len(loans) < MaxLoans
            /\ loans' = Append(loans, NewLoan(a))
            /\ session' = [session EXCEPT ![c] =
                              Commit(AddLoan(@, Len(loans) + 1, a))]
            /\ last' = Returned(c, "create_loan", a, Len(loans) + 1)
            /\ payments' = View(c)
            /\ UNCHANGED <<portions, nextId, pc, frame, covenants>>

\* create_loan run step by step, other callers in between.
\* First step: the validations, the uniqueness query among them (lines 61-71).
cl_check(c, a) ==
    /\ pc[c] = "idle"
    /\ LET err == CreateLoanError(a) IN
       IF err # ""
       THEN /\ last' = Raised(c, "create_loan", a, "ValueError", err)
            /\ UNCHANGED <<loans, portions, payments, nextId, session, pc, frame, covenants>>
       ELSE /\ pc' = [pc EXCEPT ![c] = "cl_insert"]
            /\ frame' = [frame EXCEPT ![c] = [op |-> "create_loan", args |-> a]]
            /\ UNCHANGED <<loans, portions, payments, nextId, session, last, covenants>>

\* Second step: self.db.add(loan); self.db.commit() (lines 87-88); the INSERT
\* fails on the unique column when the number was committed in between
cl_insert(c) ==
    /\ pc[c] = "cl_insert"
    /\ pc' = [pc EXCEPT ![c] = "idle"]
    /\ IF UniqueViolation(frame[c].args.loan_number)
       THEN /\ last' = Raised(c, "create_loan", frame[c].args, "IntegrityError",
                              "UNIQUE constraint failed: loans.loan_number")
            /\ UNCHANGED <<loans, portions, payments, nextId, session, frame, covenants>>
       ELSE /\ Len(loans) < MaxLoans
            /\ loans' = Append(loans, NewLoan(frame[c].args))
            /\ session' = [session EXCEPT ![c] =
                              Commit(AddLoan(@, Len(loans) + 1, frame[c].args))]
            /\ last' = Returned(c, "create_loan", frame[c].args, Len(loans) + 1)
            /\ payments' = View(c)
            /\ UNCHANGED <<portions, nextId, frame, covenants>>

\* get_loan: the row with this id, found or not
LoanExists(loan_id) == loan_id \in LoanIds

\* mutant of update_loan_status: the transition graph is enforced for the
\* terminal statuses
update_loan_status_validated(c, a) ==
    /\ pc[c] = "idle"
    /\ IF ~LoanExists(a.loan_id)
       THEN /\ last' = Raised(c, "update_loan_status", a, "ValueError", "not found")
            /\ UNCHANGED <<loans, portions, payments, covenants, nextId, session, pc, frame>>
       ELSE IF loans[a.loan_id].status \in {"PAID_OFF", "DEFAULT"}
       THEN /\ last' = Raised(c, "update_loan_status", a, "ValueError",
                              "transition not allowed")
            /\ UNCHANGED <<loans, portions, payments, covenants, nextId, session, pc, frame>>
       ELSE /\ loans' = [loans EXCEPT ![a.loan_id].status = a.new_status]
            /\ session' = [session EXCEPT ![c] = Commit(@)]
            /\ last' = Returned(c, "update_loan_status", a, a.loan_id)
            /\ payments' = View(c)
            /\ UNCHANGED <<portions, covenants, nextId, pc, frame>>

update_loan_status(c, a) ==
    /\ pc[c] = "idle"
    /\ IF ~LoanExists(a.loan_id)
       THEN /\ last' = Raised(c, "update_loan_status", a, "ValueError", "not found")
            /\ UNCHANGED <<loans, portions, payments, nextId, session, pc, frame, covenants>>
       ELSE /\ loans' = [loans EXCEPT ![a.loan_id].status = a.new_status]
            /\ session' = [session EXCEPT ![c] = Commit(@)]
            /\ last' = Returned(c, "update_loan_status", a, a.loan_id)
            /\ payments' = View(c)
            /\ UNCHANGED <<portions, nextId, pc, frame, covenants>>

\* the cap check of add_syndicate_portion
ExceedsLoanAmount(current_syndicated, amount, loan_amount) ==
    FAdd(current_syndicated, amount) > loan_amount

\* SyndicatePortion(loan_id=..., ...): linked to the loan by foreign key only
NewPortion(id, a) ==
    [id |-> id, loan_id |-> a.loan_id, participant_id |-> a.participant_id,
     amount |-> a.amount, participation_date |-> a.participation_date]

add_syndicate_portion(c, a) ==
    /\ pc[c] = "idle"
    /\ IF ~LoanExists(a.loan_id)
       THEN /\ last' = Raised(c, "add_syndicate_portion", a, "ValueError", "not found")
            /\ UNCHANGED <<loans, portions, payments, nextId, session, pc, frame, covenants>>
       ELSE LET s1 == LoadPortions(session[c], a.loan_id, portions)
                current_syndicated ==
                    total_syndicated(s1.syndicate_portions[a.loan_id].rows)
            IN  IF ExceedsLoanAmount(current_syndicated, a.amount,
                                     loans[a.loan_id].amount)
                THEN /\ session' = [session EXCEPT ![c] = s1]
                     /\ last' = Raised(c, "add_syndicate_portion", a, "ValueError",
                                       "Cannot syndicate more than the loan amount")
                     /\ UNCHANGED <<loans, portions, payments, nextId, pc, frame, covenants>>
                ELSE /\ Cardinality(portions) < MaxPortions
                     /\ portions' = portions \cup {NewPortion(nextId.portion, a)}
                     /\ nextId' = [nextId EXCEPT !.portion = @ + 1]
                     /\ session' = [session EXCEPT ![c] = Commit(s1)]
                     /\ last' = Returned(c, "add_syndicate_portion", a, nextId.portion)
                     /\ payments' = View(c)
                     /\ UNCHANGED <<loans, pc, frame, covenants>>

\* add_syndicate_portion run step by step, other callers in between.
\* First step: get_loan, read loan.total_syndicated, the cap check.
asp_check(c, a) ==
    /\ pc[c] = "idle"
    /\ IF ~LoanExists(a.loan_id)
       THEN /\ last' = Raised(c, "add_syndicate_portion", a, "ValueError", "not found")
            /\ UNCHANGED <<loans, portions, payments, nextId, session, pc, frame, covenants>>
       ELSE LET s1 == LoadPortions(session[c], a.loan_id, portions)
                current_syndicated ==
                    total_syndicated(s1.syndicate_portions[a.loan_id].rows)
            IN  /\ session' = [session EXCEPT ![c] = s1]
                /\ IF ExceedsLoanAmount(current_syndicated, a.amount,
                                        loans[a.loan_id].amount)
                   THEN /\ last' = Raised(c, "add_syndicate_portion", a, "ValueError",
                                       "Cannot syndicate more than the loan amount")
                        /\ UNCHANGED <<pc, frame, covenants>>
                   ELSE /\ pc' = [pc EXCEPT ![c] = "asp_insert"]
                        /\ frame' = [frame EXCEPT ![c] =
                               [op |-> "add_syndicate_portion", args |-> a,
                                current_syndicated |-> current_syndicated]]
                        /\ UNCHANGED <<last, covenants>>
                /\ UNCHANGED <<loans, portions, payments, nextId, covenants>>

\* mutant of asp_insert: the cap is validated again, against the committed
\* rows, in the step that inserts
asp_insert_revalidated(c) ==
    /\ pc[c] = "asp_insert"
    /\ pc' = [pc EXCEPT ![c] = "idle"]
    /\ IF ExceedsLoanAmount(TotalSyndicated(frame[c].args.loan_id),
                            frame[c].args.amount,
                            loans[frame[c].args.loan_id].amount)
       THEN /\ last' = Raised(c, "add_syndicate_portion", frame[c].args, "ValueError",
                              "Cannot syndicate more than the loan amount")
            /\ UNCHANGED <<loans, portions, payments, nextId, session, frame, covenants>>
       ELSE /\ Cardinality(portions) < MaxPortions
            /\ portions' = portions \cup {NewPortion(nextId.portion, frame[c].args)}
            /\ nextId' = [nextId EXCEPT !.portion = @ + 1]
            /\ session' = [session EXCEPT ![c] = Commit(@)]
            /\ last' = Returned(c, "add_syndicate_portion", frame[c].args,
                       nextId.portion)
            /\ payments' = View(c)
            /\ UNCHANGED <<loans, frame, covenants>>

\* Second step: self.db.add(portion); self.db.commit()
asp_insert(c) ==
    /\ pc[c] = "asp_insert"
    /\ Cardinality(portions) < MaxPortions
    /\ portions' = portions \cup {NewPortion(nextId.portion, frame[c].args)}
    /\ nextId' = [nextId EXCEPT !.portion = @ + 1]
    /\ session' = [session EXCEPT ![c] = Commit(@)]
    /\ pc' = [pc EXCEPT ![c] = "idle"]
    /\ last' = Returned(c, "add_syndicate_portion", frame[c].args,
                       nextId.portion)
    /\ payments' = View(c)
    /\ UNCHANGED <<loans, frame, covenants>>

\* mutant of NewPayment: the actual payment is flagged as a scheduled one
NewPayment_scheduled(id, a) ==
    [id |-> id, loan_id |-> a.loan_id, payment_date |-> a.payment_date,
     principal_amount |-> a.principal_amount,
     interest_amount |-> a.interest_amount, fees_amount |-> a.fees_amount,
     is_scheduled |-> TRUE]

\* Payment(loan_id=..., ..., is_scheduled=False)
NewPayment(id, a) ==
    [id |-> id, loan_id |-> a.loan_id, payment_date |-> a.payment_date,
     principal_amount |-> a.principal_amount,
     interest_amount |-> a.interest_amount, fees_amount |-> a.fees_amount,
     is_scheduled |-> FALSE]

NegativeAmounts(a) ==
    a.principal_amount < 0 \/ a.interest_amount < 0 \/ a.fees_amount < 0

\* mutant of FullyPaid: every recorded payment counts as the last one
FullyPaid_any_payment(remaining) == TRUE

\* the fully-paid test made after the payment is committed
FullyPaid(remaining) == remaining <= 0

register_payment(c, a) ==
    /\ pc[c] = "idle"
    /\ IF ~LoanExists(a.loan_id)
       THEN /\ last' = Raised(c, "register_payment", a, "ValueError", "not found")
            /\ UNCHANGED <<loans, portions, payments, nextId, session, pc, frame, covenants>>
       ELSE IF NegativeAmounts(a)
       THEN /\ last' = Raised(c, "register_payment", a, "ValueError",
                              "Payment amounts cannot be negative")
            /\ UNCHANGED <<loans, portions, payments, nextId, session, pc, frame, covenants>>
       ELSE LET l  == a.loan_id
                s1 == LoadPayments(session[c], l, View(c))
            IN  IF a.principal_amount >
                       remaining_principal(loans[l], s1.payments[l].rows)
                THEN /\ session' = [session EXCEPT ![c] = s1]
                     /\ last' = Raised(c, "register_payment", a, "ValueError",
                                       "exceeds remaining principal")
                     /\ UNCHANGED <<loans, portions, payments, nextId, pc, frame, covenants>>
                ELSE LET id == NextRowId(View(c))
                         stored == View(c) \cup {NewPayment(id, a)}
                         s2 == LoadPayments(Commit(s1), l, stored)
                         paid == FullyPaid(remaining_principal(
                                     loans[l], s2.payments[l].rows))
                     IN  /\ Cardinality({p \in payments : ~p.is_scheduled}) < MaxPayments
                         /\ payments' = stored
                         /\ loans' = IF paid
                                     THEN [loans EXCEPT ![l].status = "PAID_OFF"]
                                     ELSE loans
                         /\ session' = [session EXCEPT ![c] =
                                           IF paid THEN Commit(s2) ELSE s2]
                         /\ last' = Returned(c, "register_payment", a, id)
                         /\ UNCHANGED <<portions, nextId, pc, frame, covenants>>

\* register_payment run step by step, other callers in between.
\* First step: get_loan and the validations (lines 253-264).
rp_check(c, a) ==
    /\ pc[c] = "idle"
    /\ IF ~LoanExists(a.loan_id)
       THEN /\ last' = Raised(c, "register_payment", a, "ValueError", "not found")
            /\ UNCHANGED <<loans, portions, payments, covenants, nextId, session, pc, frame>>
       ELSE IF NegativeAmounts(a)
       THEN /\ last' = Raised(c, "register_payment", a, "ValueError",
                              "Payment amounts cannot be negative")
            /\ UNCHANGED <<loans, portions, payments, covenants, nextId, session, pc, frame>>
       ELSE LET l  == a.loan_id
                s1 == LoadPayments(session[c], l, View(c))
            IN  /\ session' = [session EXCEPT ![c] = s1]
                /\ IF a.principal_amount >
                          remaining_principal(loans[l], s1.payments[l].rows)
                   THEN /\ last' = Raised(c, "register_payment", a, "ValueError",
                                          "exceeds remaining principal")
                        /\ UNCHANGED <<pc, frame>>
                   ELSE /\ pc' = [pc EXCEPT ![c] = "rp_insert"]
                        /\ frame' = [frame EXCEPT ![c] =
                               [op |-> "register_payment", args |-> a,
                                payment_id |-> 0]]
                        /\ UNCHANGED last
                /\ UNCHANGED <<loans, portions, payments, covenants, nextId>>

\* Second step: self.db.add(payment); self.db.commit() (lines 266-277)
rp_insert(c) ==
    /\ pc[c] = "rp_insert"
    /\ Cardinality({p \in payments : ~p.is_scheduled}) < MaxPayments
    /\ LET id == NextRowId(View(c))
       IN  /\ payments' = View(c) \cup {NewPayment(id, frame[c].args)}
           /\ frame' = [frame EXCEPT ![c].payment_id = id]
    /\ session' = [session EXCEPT ![c] = Commit(@)]
    /\ pc' = [pc EXCEPT ![c] = "rp_status"]
    /\ UNCHANGED <<loans, portions, covenants, nextId, last>>

\* Third step: the fully-paid test and update_loan_status with its own commit
\* (lines 279-285)
rp_status(c) ==
    /\ pc[c] = "rp_status"
    /\ LET l  == frame[c].args.loan_id
           s2 == LoadPayments(session[c], l, View(c))
           paid == FullyPaid(remaining_principal(loans[l], s2.payments[l].rows))
       IN  /\ loans' = IF paid THEN [loans EXCEPT ![l].status = "PAID_OFF"]
                       ELSE loans
           /\ session' = [session EXCEPT ![c] = IF paid THEN Commit(s2) ELSE s2]
           /\ payments' = IF paid THEN View(c) ELSE payments
    /\ pc' = [pc EXCEPT ![c] = "idle"]
    /\ last' = Returned(c, "register_payment", frame[c].args, frame[c].payment_id)
    /\ UNCHANGED <<portions, covenants, nextId, frame>>

(* ------------------------- payment schedules -------------------------- *)

Year(d) == d \div 10000
Month(d) == (d \div 100) % 100
Day(d) == d % 100
Date(y, m, d) == y * 10000 + m * 100 + d

\* Python's a // b and a % b, whatever the signs (b # 0)
FloorDiv(a, b) ==
    IF b > 0 THEN (IF a >= 0 THEN a \div b ELSE -((-a + b - 1) \div b))
    ELSE (IF a <= 0 THEN (-a) \div (-b) ELSE -((a - b - 1) \div (-b)))

Mod(a, b) == a - b * FloorDiv(a, b)

Min(x, y) == IF x < y THEN x ELSE y

\* mutant of DaysInMonth: every fourth year is a leap year
DaysInMonth_every_fourth_year(y, m) ==
    LET feb == IF y % 4 = 0 THEN 29 ELSE 28
    IN  <<31, feb, 31, 30, 31, 30, 31, 31, 30, 31, 30, 31>>[m]

\* the list of month lengths of _add_months, for the months of year y
DaysInMonth(y, m) ==
    LET feb == IF y % 4 = 0 /\ (y % 100 # 0 \/ y % 400 = 0) THEN 29 ELSE 28
    IN  <<31, feb, 31, 30, 31, 30, 31, 31, 30, 31, 30, 31>>[m]

_add_months(date, months) ==
    LET month0 == Month(date) - 1 + months
        year   == Year(date) + FloorDiv(month0, 12)
        month  == Mod(month0, 12) + 1
        day    == Min(Day(date), DaysInMonth(year, month))
    IN  Date(year, month, day)

\* num_payments is <<>> when the argument is omitted (None) and <<n>> when given;
\* "if not num_payments" holds for None and for 0
NotNumPayments(np) == np = <<>> \/ np[1] = 0

MonthsToMaturity(loan, start_date) ==
    (Year(loan.maturity_date) - Year(start_date)) * 12
        + Month(loan.maturity_date) - Month(start_date)

\* date.replace(year=...) raises ValueError outside datetime.MINYEAR..MAXYEAR
AddMonthsRaises(date, months) ==
    LET year == Year(date) + FloorDiv(Month(date) - 1 + months, 12)
    IN  year < 1 \/ year > 9999

\* a call self._add_months(date, months) by itself: it returns the date, or
\* date.replace raises
call_add_months(c, a) ==
    /\ pc[c] = "idle"
    /\ last' = IF AddMonthsRaises(a.date, a.months)
               THEN Raised(c, "_add_months", a, "ValueError",
                           "year is out of range")
               ELSE Returned(c, "_add_months", a, _add_months(a.date, a.months))
    /\ UNCHANGED <<loans, portions, payments, covenants, nextId, session, pc,
                   frame>>

\* mutant of ScheduleLoop: the running balance is not reduced by the
\* principal of the period
RECURSIVE ScheduleLoop_balance_kept(_, _, _, _)
ScheduleLoop_balance_kept(k, i, remaining, current_date) ==
    IF i >= k.num_payments THEN <<>>
    ELSE LET principal_amount == IF i = k.num_payments - 1 THEN remaining
                                 ELSE k.principal_per_payment
             interest_amount == FDiv(FMul(remaining, k.interest_rate), 12)
             payment == [id |-> k.first_id + i, loan_id |-> k.loan_id,
                         payment_date |-> current_date,
                         principal_amount |-> principal_amount,
                         interest_amount |-> interest_amount,
                         fees_amount |-> 0, is_scheduled |-> TRUE]
         IN  <<payment>> \o
             IF AddMonthsRaises(current_date, k.frequency_months) THEN <<>>
             ELSE ScheduleLoop_balance_kept(k, i + 1, remaining,
                          _add_months(current_date, k.frequency_months))

\* mutant of ScheduleLoop: the last payment carries the same principal as the
\* others instead of the running balance
RECURSIVE ScheduleLoop_equal_instalments(_, _, _, _)
ScheduleLoop_equal_instalments(k, i, remaining, current_date) ==
    IF i >= k.num_payments THEN <<>>
    ELSE LET principal_amount == k.principal_per_payment
             interest_amount == FDiv(FMul(remaining, k.interest_rate), 12)
             payment == [id |-> k.first_id + i, loan_id |-> k.loan_id,
                         payment_date |-> current_date,
                         principal_amount |-> principal_amount,
                         interest_amount |-> interest_amount,
                         fees_amount |-> 0, is_scheduled |-> TRUE]
         IN  <<payment>> \o
             IF AddMonthsRaises(current_date, k.frequency_months) THEN <<>>
             ELSE ScheduleLoop_equal_instalments(k, i + 1,
                      FSub(remaining, principal_amount),
                      _add_months(current_date, k.frequency_months))

\* the loop of schedule_payments from iteration i on: the rows it adds to the
\* session, up to and including the iteration in which _add_months raises
RECURSIVE ScheduleLoop(_, _, _, _)
ScheduleLoop(k, i, remaining, current_date) ==
    IF i >= k.num_payments THEN <<>>
    ELSE LET principal_amount == IF i = k.num_payments - 1 THEN remaining
                                 ELSE k.principal_per_payment
             interest_amount == FDiv(FMul(remaining, k.interest_rate), 12)
             payment == [id |-> k.first_id + i, loan_id |-> k.loan_id,
                         payment_date |-> current_date,
                         principal_amount |-> principal_amount,
                         interest_amount |-> interest_amount,
                         fees_amount |-> 0, is_scheduled |-> TRUE]
         IN  <<payment>> \o
             IF AddMonthsRaises(current_date, k.frequency_months) THEN <<>>
             ELSE ScheduleLoop(k, i + 1, FSub(remaining, principal_amount),
                               _add_months(current_date, k.frequency_months))

\* whether the loop from iteration i on ends in _add_months raising (line 351
\* runs in every iteration, the last one included)
RECURSIVE LoopRaises(_, _, _, _)
LoopRaises(num_payments, frequency_months, i, current_date) ==
    IF i >= num_payments THEN FALSE
    ELSE \/ AddMonthsRaises(current_date, frequency_months)
         \/ LoopRaises(num_payments, frequency_months, i + 1,
                       _add_months(current_date, frequency_months))

\* the payments list schedule_payments builds for loan row loan with remaining
\* principal r and num_payments n
ScheduledPayments(a, loan, r, n, first_id) ==
    ScheduleLoop([num_payments |-> n, principal_per_payment |-> FDiv(r, n),
                  interest_rate |-> loan.interest_rate, loan_id |-> a.loan_id,
                  frequency_months |-> a.frequency_months, first_id |-> first_id],
                 0, r, a.start_date)

\* mutant of DeleteScheduled: the existing schedule is kept
DeleteScheduled_nothing(tbl, l) == tbl

\* self.db.query(Payment).filter(loan_id == l, is_scheduled == True).delete()
DeleteScheduled(tbl, l) == {p \in tbl : ~(p.loan_id = l /\ p.is_scheduled)}

Range(seq) == {seq[i] : i \in 1..Len(seq)}

schedule_payments(c, a) ==
    /\ pc[c] = "idle"
    /\ IF ~LoanExists(a.loan_id)
       THEN /\ last' = Raised(c, "schedule_payments", a, "ValueError", "not found")
            /\ UNCHANGED <<loans, portions, payments, nextId, session, pc, frame, covenants>>
       ELSE IF NotNumPayments(a.num_payments) /\ a.frequency_months = 0
       THEN /\ last' = Raised(c, "schedule_payments", a, "ZeroDivisionError",
                              "integer division or modulo by zero")
            /\ UNCHANGED <<loans, portions, payments, nextId, session, pc, frame, covenants>>
       ELSE LET l  == a.loan_id
                n  == IF NotNumPayments(a.num_payments)
                      THEN FloorDiv(MonthsToMaturity(loans[l], a.start_date),
                                    a.frequency_months) + 1
                      ELSE a.num_payments[1]
                s1 == LoadPayments(session[c], l, View(c))
                r  == remaining_principal(loans[l], s1.payments[l].rows)
            IN  IF n = 0
                THEN /\ session' = [session EXCEPT ![c] = s1]
                     /\ last' = Raised(c, "schedule_payments", a,
                                       "ZeroDivisionError", "division by zero")
                     /\ UNCHANGED <<loans, portions, payments, nextId, pc, frame, covenants>>
                ELSE LET kept == DeleteScheduled(View(c), l)
                         new  == ScheduledPayments(a, loans[l], r, n,
                                                   NextRowId(kept))
                     IN  /\ n <= MaxScheduled
                         /\ NextRowId(kept) + Len(new) <= MaxPaymentId + 1
                         /\ IF LoopRaises(n, a.frequency_months, 0, a.start_date)
                            THEN \* no commit: the DELETE and the added rows
                                 \* stay in the session's open transaction
                                 /\ session' = [session EXCEPT ![c] =
                                        [s1 EXCEPT !.pending =
                                            PendingFor(kept \cup Range(new))]]
                                 /\ last' = Raised(c, "schedule_payments", a,
                                                   "ValueError", "year is out of range")
                                 /\ UNCHANGED payments
                            ELSE /\ payments' = kept \cup Range(new)
                                 /\ session' = [session EXCEPT ![c] = Commit(s1)]
                                 /\ last' =
                                      [Returned(c, "schedule_payments", a,
                                           [i \in 1..Len(new) |-> new[i].id])
                                       EXCEPT !.replaced = View(c) \ kept]
                         /\ UNCHANGED <<loans, portions, nextId, pc, frame, covenants>>

(* ------------------------------ covenants ----------------------------- *)

\* Covenant(loan_id=..., ..., is_active=True)
NewCovenant(id, a) ==
    [id |-> id, loan_id |-> a.loan_id, description |-> a.description,
     covenant_type |-> a.covenant_type, threshold_value |-> a.threshold_value,
     is_active |-> TRUE]

add_covenant(c, a) ==
    /\ pc[c] = "idle"
    /\ IF ~LoanExists(a.loan_id)
       THEN /\ last' = Raised(c, "add_covenant", a, "ValueError", "not found")
            /\ UNCHANGED <<loans, portions, payments, covenants, nextId, session, pc, frame>>
       ELSE /\ Cardinality(covenants) < MaxCovenants
            /\ covenants' = covenants \cup {NewCovenant(nextId.covenant, a)}
            /\ nextId' = [nextId EXCEPT !.covenant = @ + 1]
            /\ payments' = View(c)
            /\ session' = [session EXCEPT ![c] = Commit(@)]
            /\ last' = Returned(c, "add_covenant", a, nextId.covenant)
            /\ UNCHANGED <<loans, portions, pc, frame>>

(* ------------------------------ reports ------------------------------- *)

\* table borrowers, which no LoanManager operation writes: a borrower with an
\* industry and one without (Borrower.industry is nullable)
Borrowers ==
    {[id |-> 1, name |-> "TechNova Inc.", industry |-> "Technology"],
     [id |-> 2, name |-> "Unlisted Holdings", industry |-> None]}

\* table syndicate_participants, which no LoanManager operation writes
Participants == {[id |-> 1, name |-> "Global Investment Bank"]}

\* loan.borrower: the row borrower_id refers to, None when there is none
borrower(loan) ==
    IF \E b \in Borrowers : b.id = loan.borrower_id
    THEN CHOOSE b \in Borrowers : b.id = loan.borrower_id
    ELSE None

\* no row of tbl has this id: the relationship attribute is None
NoRow(tbl, id) == \A r \in tbl : r.id # id

\* portion.participant
participant(p) ==
    IF \E q \in Participants : q.id = p.participant_id
    THEN CHOOSE q \in Participants : q.id = p.participant_id
    ELSE None

\* query(Loan).filter(Loan.status == ACTIVE).all(): the ids, in id order
ActiveLoans(lns) ==
    SelectSeq([i \in 1..Len(lns) |-> i], LAMBDA i : lns[i].status = "ACTIVE")

\* loan.syndicate_portions read for every loan of ids, one after the other
RECURSIVE LoadAllPortions(_, _, _)
LoadAllPortions(s, ids, tbl) ==
    IF ids = <<>> THEN s
    ELSE LoadAllPortions(LoadPortions(s, Head(ids), tbl), Tail(ids), tbl)

\* mutant of Percentage: no guard, the division by zero marked by -1
Percentage_unguarded(part, whole) ==
    IF whole = 0 THEN -1 ELSE FMul(FDiv(part, whole), 100)

\* "x * 100 if y > 0 else 0" of the percentage figures
Percentage(part, whole) ==
    IF whole > 0 THEN FMul(FDiv(part, whole), 100) ELSE 0

\* what get_loan_syndication_status(l) returns to a caller with session s over
\* loans lns and portions tbl; raises is TRUE when p.participant.name fails
SyndicationStatus(lns, tbl, s, l) ==
    LET loan == lns[l]
        rows == LoadPortions(s, l, tbl).syndicate_portions[l].rows
        ps == ById(rows)
        total == total_syndicated(rows)
    IN  [raises |-> \E p \in rows : NoRow(Participants, p.participant_id),
         loan_id |-> l, loan_number |-> loan.loan_number,
         total_amount |-> loan.amount,
         total_syndicated |-> total,
         remaining_to_syndicate |-> FSub(loan.amount, total),
         syndication_percentage |-> Percentage(total, loan.amount),
         portions |-> [i \in 1..Len(ps) |->
                          [participant_id |-> ps[i].participant_id,
                           amount |-> ps[i].amount,
                           percentage |-> Percentage(ps[i].amount, loan.amount),
                           participation_date |-> ps[i].participation_date]]]

get_loan_syndication_status(c, a) ==
    /\ pc[c] = "idle"
    /\ IF ~LoanExists(a.loan_id)
       THEN /\ last' = Raised(c, "get_loan_syndication_status", a, "ValueError",
                              "not found")
            /\ UNCHANGED session
       ELSE LET r == SyndicationStatus(loans, portions, session[c], a.loan_id)
            IN  /\ session' = [session EXCEPT ![c] =
                                  LoadPortions(@, a.loan_id, portions)]
                /\ last' = IF r.raises
                           THEN Raised(c, "get_loan_syndication_status", a,
                                       "AttributeError",
                                       "'NoneType' object has no attribute 'name'")
                           ELSE Returned(c, "get_loan_syndication_status", a, r)
    /\ UNCHANGED <<loans, portions, payments, covenants, nextId, pc, frame>>

\* what get_portfolio_overview() returns to a caller with session s over loans
\* lns and portions tbl; raises is TRUE when loan.borrower.industry fails
PortfolioOverview(lns, tbl, s) ==
    LET act  == ActiveLoans(lns)
        s1   == LoadAllPortions(s, act, tbl)
        retained(l) ==
            FSub(lns[l].amount,
                 total_syndicated(s1.syndicate_portions[l].rows))
        total_exposure == FSum([i \in 1..Len(act) |-> lns[act[i]].amount])
        total == FSum([i \in 1..Len(act) |->
                     total_syndicated(s1.syndicate_portions[act[i]].rows)])
        rating(l) == IF lns[l].risk_rating = None THEN "Not rated"
                     ELSE lns[l].risk_rating
        industry(l) == IF borrower(lns[l]).industry = None THEN "Not specified"
                       ELSE borrower(lns[l]).industry
        Bucket(Label(_), label) ==
            LET ids == SelectSeq(act, LAMBDA l : Label(l) = label)
            IN  FSum([i \in 1..Len(ids) |-> retained(ids[i])])
        raises == \E i \in 1..Len(act) : NoRow(Borrowers, lns[act[i]].borrower_id)
    IN  [raises |-> raises,
         total_portfolio_size |-> total_exposure,
         total_syndicated |-> total,
         retained_exposure |-> FSub(total_exposure, total),
         syndication_percentage |-> Percentage(total, total_exposure),
         active_loans_count |-> Len(act),
         risk_breakdown |->
             [label \in {rating(act[i]) : i \in 1..Len(act)} |->
                 Bucket(rating, label)],
         industry_breakdown |->
             IF raises THEN <<>>
             ELSE [label \in {industry(act[i]) : i \in 1..Len(act)} |->
                      Bucket(industry, label)]]

\* date.toordinal(): the number of the day, 1 for 0001-01-01
Ordinal(d) ==
    LET y == Year(d) - 1
        RECURSIVE DaysBefore(_)
        DaysBefore(m) ==
            IF m = 1 THEN 0 ELSE DaysBefore(m - 1) + DaysInMonth(Year(d), m - 1)
    IN  365 * y + y \div 4 - y \div 100 + y \div 400
            + DaysBefore(Month(d)) + Day(d)

Max(x, y) == IF x > y THEN x ELSE y

\* max(0, (loan.maturity_date - today).days)
DaysToMaturity(maturity_date, today) ==
    Max(0, Ordinal(maturity_date) - Ordinal(today))

\* what calculate_loan_metrics(l) returns on the day today to a caller with
\* session s over loans lns, payments pays and portions tbl; raises names the
\* exception of the first statement that fails, "" when none does
LoanMetrics(lns, pays, tbl, s, l, today) ==
    LET loan == lns[l]
        rows == LoadPayments(s, l, pays).payments[l].rows
        actual_payments == ById({p \in rows : ~p.is_scheduled})
        Total(Amount(_)) ==
            FSum([i \in 1..Len(actual_payments) |-> Amount(actual_payments[i])])
        total_principal_paid == Total(LAMBDA p : p.principal_amount)
        syndicated ==
            total_syndicated(LoadPortions(s, l, tbl).syndicate_portions[l].rows)
    IN  [raises |-> IF l \in s.datetimes THEN "TypeError"
                    ELSE IF NoRow(Borrowers, loan.borrower_id)
                    THEN "AttributeError"
                    ELSE "",
         loan_id |-> l, loan_number |-> loan.loan_number,
         original_amount |-> loan.amount,
         remaining_principal |-> FSub(loan.amount, total_principal_paid),
         principal_paid |-> total_principal_paid,
         interest_paid |-> Total(LAMBDA p : p.interest_amount),
         fees_paid |-> Total(LAMBDA p : p.fees_amount),
         days_to_maturity |-> DaysToMaturity(loan.maturity_date, today),
         syndication_percentage |-> Percentage(syndicated, loan.amount),
         risk_rating |-> IF loan.risk_rating = None THEN "Not rated"
                         ELSE loan.risk_rating,
         status |-> loan.status]

\* the arguments of a call together with the date the clock gave it
Now(a, today) == [loan_id |-> a.loan_id, today |-> today]

\* calculate_loan_metrics on the day today (datetime.now().date())
calculate_loan_metrics(c, a, today) ==
    /\ pc[c] = "idle"
    /\ IF ~LoanExists(a.loan_id)
       THEN /\ last' = Raised(c, "calculate_loan_metrics", Now(a, today),
                              "ValueError", "not found")
            /\ UNCHANGED session
       ELSE LET l  == a.loan_id
                r  == LoanMetrics(loans, View(c), portions, session[c], l, today)
                s1 == LoadPayments(session[c], l, View(c))
            IN  IF r.raises # ""
                THEN /\ session' = [session EXCEPT ![c] = s1]
                     /\ last' = Raised(c, "calculate_loan_metrics", Now(a, today),
                             r.raises,
                             IF r.raises = "TypeError"
                             THEN "unsupported operand type(s) for -"
                             ELSE "'NoneType' object has no attribute 'name'")
                ELSE /\ session' = [session EXCEPT ![c] =
                                       LoadPortions(s1, l, portions)]
                     /\ last' = Returned(c, "calculate_loan_metrics",
                                         Now(a, today), r)
    /\ UNCHANGED <<loans, portions, payments, covenants, nextId, pc, frame>>

get_portfolio_overview(c) ==
    /\ pc[c] = "idle"
    /\ LET r == PortfolioOverview(loans, portions, session[c])
       IN  /\ session' = [session EXCEPT ![c] =
                  LoadAllPortions(@, ActiveLoans(loans), portions)]
           /\ last' = IF r.raises
                      THEN Raised(c, "get_portfolio_overview", <<>>,
                                  "AttributeError",
                                  "'NoneType' object has no attribute 'industry'")
                      ELSE Returned(c, "get_portfolio_overview", <<>>, r)
    /\ UNCHANGED <<loans, portions, payments, covenants, nextId, pc, frame>>

\* "if x:" for an optional argument, <<>> when omitted (None) and <<v>> when
\* given: an enum member is always true, an integer is false when it is 0
GivenEnum(x) == x # <<>>
GivenInt(x) == x # <<>> /\ x[1] # 0

\* the query get_all_loans builds, run on table lns: the ids in id order
MatchingLoans(lns, a) ==
    SelectSeq([i \in 1..Len(lns) |-> i],
              LAMBDA i :
                  /\ GivenEnum(a.status) => lns[i].status = a.status[1]
                  /\ GivenInt(a.borrower_id)
                         => lns[i].borrower_id = a.borrower_id[1]
                  /\ GivenEnum(a.risk_rating)
                         => lns[i].risk_rating = a.risk_rating[1])

get_all_loans(c, a) ==
    /\ pc[c] = "idle"
    /\ last' = Returned(c, "get_all_loans", a, MatchingLoans(loans, a))
    /\ UNCHANGED <<loans, portions, payments, covenants, nextId, session, pc, frame>>

(* ---------------------------- the callers ------------------------------ *)

\* the arguments a caller passes, drawn from small sets of values
CreateArgs(numbers, amounts, originations, maturities, statuses) ==
    [loan_number : numbers, borrower_id : {1}, amount : amounts,
     origination_date : originations, maturity_date : maturities,
     interest_rate : {6},
     purpose : {None}, risk_rating : {None}, status : statuses]

\* create_loan arguments with the borrower and the risk rating chosen
CreateArgsFor(numbers, amounts, borrowers, ratings, statuses) ==
    [loan_number : numbers, borrower_id : borrowers, amount : amounts,
     origination_date : {20240101}, maturity_date : {20260101},
     interest_rate : {6},
     purpose : {None}, risk_rating : ratings, status : statuses]

\* the same arguments with the two dates given as datetime objects, at
\* origination_time and maturity_time o'clock
AsDatetimes(a, origination_time, maturity_time) ==
    [f \in DOMAIN a \cup {"date_type", "origination_time", "maturity_time"} |->
        IF f = "date_type" THEN "datetime"
        ELSE IF f = "origination_time" THEN origination_time
        ELSE IF f = "maturity_time" THEN maturity_time
        ELSE a[f]]

\* the filters of get_all_loans, each omitted (<<>>) or given (<<v>>)
FilterArgs(statuses, borrowers, ratings) ==
    [status : {<<>>} \cup {<<x>> : x \in statuses},
     borrower_id : {<<>>} \cup {<<x>> : x \in borrowers},
     risk_rating : {<<>>} \cup {<<x>> : x \in ratings}]

\* the same arguments with status omitted
WithoutStatus(a) == [f \in DOMAIN a \ {"status"} |-> a[f]]

StatusArgs(statuses) == [loan_id : 1..MaxLoans, new_status : statuses]

PortionArgs(amounts) ==
    [loan_id : 1..MaxLoans, participant_id : {1}, amount : amounts,
     participation_date : {20240115}]

CovenantArgs(ids) ==
    [loan_id : ids, description : {"Debt/EBITDA below 4"},
     covenant_type : {"Financial"}, threshold_value : {4}]

PaymentArgs(ids, principals, others) ==
    [loan_id : ids, payment_date : {20240201},
     principal_amount : principals, interest_amount : others,
     fees_amount : others]

Idle == [op |-> "none"]

\* the state after construction: empty tables, every caller with a new session
\* of the one session factory of the process
Init ==
    /\ loans = <<>>
    /\ portions = {}
    /\ payments = {}
    /\ covenants = {}
    /\ nextId = [portion |-> 1, covenant |-> 1]
    /\ \E e \in BOOLEAN : session = [c \in Callers |-> NewSession(e)]
    /\ pc = [c \in Callers |-> "idle"]
    /\ frame = [c \in Callers |-> Idle]
    /\ last = NoCall

\* one caller: loans and their syndication
NextSynd ==
    \/ \E a \in CreateArgs({"L1", "L2"}, {4}, {20240101}, {20260101},
                             {"PENDING"}) :
           create_loan(1, a)
    \/ \E a \in PortionArgs({-1, 2, 3}) : add_syndicate_portion(1, a)
    \/ close_session(1)

SpecSynd == Init /\ [][NextSynd]_vars

(* ------------------------------ claims -------------------------------- *)

\* C1: with a single caller, every loan has total_syndicated <= amount in
\* every reachable state, and a call of add_syndicate_portion whose amount
\* would take the committed total above the loan amount fails and adds no
\* portion.
C1_SyndicationCap ==
    \A l \in LoanIds : TotalSyndicated(l) <= loans[l].amount


\* one caller: loans and their actual payments
NextPay ==
    \/ \E a \in CreateArgs({"L1", "L2"}, {4}, {20240101}, {20260101},
                           {"ACTIVE"}) : create_loan(1, a)
    \/ \E a \in PaymentArgs(1..MaxLoans, {-1, 0, 2, 4}, {0})
                  \cup PaymentArgs(1..MaxLoans, {2}, {-1}) :
           register_payment(1, a)
    \/ close_session(1)

SpecPay == Init /\ [][NextPay]_vars

ScheduleArgs(ids, starts, frequencies, counts) ==
    [loan_id : ids, start_date : starts,
     frequency_months : frequencies, num_payments : counts]

\* one caller: a loan, its actual payments and its payment schedules
NextSched ==
    \/ \E a \in CreateArgs({"L1"}, {12}, {20240101}, {20240331}, {"ACTIVE"}) :
           create_loan(1, a)
    \/ \E a \in PaymentArgs({1}, {4}, {0}) : register_payment(1, a)
    \/ \E a \in ScheduleArgs({1}, {20240131}, {1, 2}, {<<>>, <<4>>}) :
           schedule_payments(1, a)
    \/ close_session(1)

SpecSched == Init /\ [][NextSched]_vars

\* one caller creating loans from arguments of every kind
NextCreate ==
    \E a \in CreateArgs({"L1", "L2"}, {-1, 0, 4}, {20240101, 20250101},
                        {20240101, 20250101}, {"PENDING", "ACTIVE"}) :
        create_loan(1, a)

SpecCreate == Init /\ [][NextCreate]_vars

\* one caller using every write operation, with arguments that pass and
\* arguments that fail at each point an operation can fail
NextWrites ==
    \/ \E a \in CreateArgs({"L1"}, {12}, {20240101}, {20240101, 20240131},
                           {"ACTIVE"}) : create_loan(1, a)
    \/ \E a \in {x \in StatusArgs({"DEFAULT"}) : x.loan_id = 1} :
           update_loan_status(1, a)
    \/ \E a \in {x \in PortionArgs({8}) : x.loan_id = 1} :
           add_syndicate_portion(1, a)
    \/ \E a \in PaymentArgs({1}, {-1, 12}, {0}) : register_payment(1, a)
    \/ \E a \in ScheduleArgs({1}, {20240131}, {0, 1, 120000},
                             {<<>>, <<-1>>}) : schedule_payments(1, a)
    \/ \E a \in CovenantArgs({1}) : add_covenant(1, a)
    \/ close_session(1)

SpecWrites == Init /\ [][NextWrites]_vars

\* two callers, each with its own session, registering payments step by step
NextPayRace ==
    \/ \E a \in CreateArgs({"L1"}, {4}, {20240101}, {20260101}, {"ACTIVE"}) :
           create_loan(1, a)
    \/ \E c \in Callers : \E a \in PaymentArgs({1}, {2, 4}, {0}) : rp_check(c, a)
    \/ \E c \in Callers : rp_insert(c)
    \/ \E c \in Callers : rp_status(c)

SpecPayRace == Init /\ [][NextPayRace]_vars

\* one caller: loans, their status changes and their actual payments
NextStatus ==
    \/ \E a \in CreateArgs({"L1", "L2"}, {4}, {20240101}, {20260101},
                           {"PENDING"}) : create_loan(1, a)
    \/ \E a \in StatusArgs(LoanStatus) : update_loan_status(1, a)
    \/ \E a \in PaymentArgs(1..MaxLoans, {2, 4}, {0}) : register_payment(1, a)
    \/ close_session(1)

SpecStatus == Init /\ [][NextStatus]_vars

\* one caller: two loans, their status changes, and the syndicate portions,
\* payments and covenants of the first
NextFrame ==
    \/ \E a \in CreateArgs({"L1", "L2"}, {4}, {20240101}, {20260101},
                           {"PENDING"}) : create_loan(1, a)
    \/ \E a \in StatusArgs(LoanStatus) : update_loan_status(1, a)
    \/ \E a \in {x \in PortionArgs({2}) : x.loan_id = 1} :
           add_syndicate_portion(1, a)
    \/ \E a \in PaymentArgs({1}, {2}, {0}) : register_payment(1, a)
    \/ \E a \in CovenantArgs({1}) : add_covenant(1, a)

SpecFrame == Init /\ [][NextFrame]_vars

\* one caller: loans of either status, rated or not, of a borrower with an
\* industry, one without, or of none, their syndication and the overview
NextOverview ==
    \/ \E a \in {x \in CreateArgsFor({"L1", "L2"}, {4}, {1, 2, 3}, {None, "A"},
                                     {"PENDING", "ACTIVE"}) :
                    (x.loan_number = "L1") = (x.risk_rating = None)} :
           create_loan(1, a)
    \/ \E a \in PortionArgs({2}) : add_syndicate_portion(1, a)
    \/ get_portfolio_overview(1)
    \/ close_session(1)

SpecOverview == Init /\ [][NextOverview]_vars

\* one caller running the steps of the end-to-end scenario in any order: loans
\* of amount 8 created with the default status, portions of 3 and 4, a payment
\* of principal 2 and the reports
NextScenario ==
    \/ \E a \in CreateArgsFor({"L1", "L2"}, {8}, {1}, {None}, {"PENDING"}) :
           create_loan(1, a)
    \/ \E a \in {x \in PortionArgs({3, 4}) : x.loan_id = 1} :
           add_syndicate_portion(1, a)
    \/ \E a \in PaymentArgs({1}, {2}, {0}) : register_payment(1, a)
    \/ \E l \in 1..MaxLoans : get_loan_syndication_status(1, [loan_id |-> l])
    \/ get_portfolio_overview(1)
    \/ close_session(1)

SpecScenario == Init /\ [][NextScenario]_vars

\* one caller: loans created from dates or from datetimes, a payment with
\* interest and fees, a one-row schedule, and the metrics asked for before
\* and after maturity
NextMetrics ==
    \/ \E a \in CreateArgsFor({"L1", "L2"}, {4}, {1}, {None}, {"ACTIVE"}) :
           create_loan(1, a) \/ create_loan(1, AsDatetimes(a, 0, 0))
    \/ \E a \in PaymentArgs({1}, {2}, {1}) : register_payment(1, a)
    \/ \E a \in ScheduleArgs({1}, {20240131}, {12}, {<<1>>}) :
           schedule_payments(1, a)
    \/ \E l \in 1..MaxLoans, today \in {20251231, 20260302} :
           calculate_loan_metrics(1, [loan_id |-> l], today)
    \/ close_session(1)

SpecMetrics == Init /\ [][NextMetrics]_vars

\* one caller: loans created from amounts and dates of every kind, the dates
\* given as dates or as datetimes in the morning and at noon, and the
\* operations that write to a loan
NextLoanRows ==
    \/ \E a \in CreateArgs({"L1", "L2"}, {0, 4}, {20240101},
                           {20240101, 20240102}, {"ACTIVE"}) :
           \/ create_loan(1, a)
           \/ \E t \in {<<8, 12>>, <<12, 8>>} :
                  /\ a.maturity_date = a.origination_date
                  /\ create_loan(1, AsDatetimes(a, t[1], t[2]))
    \/ \E a \in {x \in StatusArgs({"DEFAULT"}) : x.loan_id = 1} :
           update_loan_status(1, a)
    \/ \E a \in PaymentArgs({1}, {4}, {0}) : register_payment(1, a)
    \/ close_session(1)

SpecLoanRows == Init /\ [][NextLoanRows]_vars

\* one caller: loans at a positive and at a negative interest rate, payments
\* of the whole amount and schedules of two payments
NextPaymentRows ==
    \/ \E a \in CreateArgs({"L1", "L2"}, {12}, {20240101}, {20240331},
                           {"ACTIVE"}), rate \in {-6, 6} :
           create_loan(1, [a EXCEPT !.interest_rate = rate])
    \/ \E a \in PaymentArgs({1}, {12}, {0}) : register_payment(1, a)
    \/ \E a \in ScheduleArgs({1}, {20240131}, {1}, {<<2>>}) :
           schedule_payments(1, a)
    \/ close_session(1)

SpecPaymentRows == Init /\ [][NextPaymentRows]_vars

\* one caller creating loans with each status and with no status argument
NextInitial ==
    \E a \in CreateArgs({"L1", "L2"}, {4}, {20240101}, {20260101}, LoanStatus) :
        \/ create_loan(1, a)
        \/ a.status = "ACTIVE" /\ create_loan(1, WithoutStatus(a))

SpecInitial == Init /\ [][NextInitial]_vars

\* one caller: loans of two borrowers, rated or not, PENDING or ACTIVE, and
\* the loan list under every combination of filters
NextQuery ==
    \/ \E a \in CreateArgsFor({"L1", "L2"}, {4}, {1, 2}, {None, "A"},
                              {"PENDING", "ACTIVE"}) : create_loan(1, a)
    \/ \E a \in FilterArgs({"ACTIVE"}, {0, 1}, {"A"}) : get_all_loans(1, a)

SpecQuery == Init /\ [][NextQuery]_vars

\* one caller: ACTIVE loans, their syndication, payments of half and of the
\* whole amount, and the two reports of the syndication figures
NextFigures ==
    \/ \E a \in CreateArgsFor({"L1", "L2"}, {4}, {1}, {None}, {"ACTIVE"}) :
           create_loan(1, a)
    \/ \E a \in {x \in PortionArgs({2}) : x.loan_id = 1} :
           add_syndicate_portion(1, a)
    \/ \E a \in PaymentArgs(1..MaxLoans, {2, 4}, {0}) : register_payment(1, a)
    \/ get_loan_syndication_status(1, [loan_id |-> 1])
    \/ get_portfolio_overview(1)
    \/ close_session(1)

SpecFigures == Init /\ [][NextFigures]_vars

\* two callers, each with its own session, creating loans step by step
NextCreateRace ==
    \/ \E c \in Callers :
           \E a \in CreateArgs({"L1", "L2"}, {4, 6}, {20240101}, {20260101},
                               {"PENDING"}) : cl_check(c, a)
    \/ \E c \in Callers : cl_insert(c)

SpecCreateRace == Init /\ [][NextCreateRace]_vars

\* two callers, each with its own session, adding portions step by step
NextSyndRace ==
    \/ \E a \in CreateArgs({"L1"}, {4}, {20240101}, {20260101}, {"PENDING"}) :
           create_loan(1, a)
    \/ \E c \in Callers : \E a \in PortionArgs({2, 3}) : asp_check(c, a)
    \/ \E c \in Callers : asp_insert(c)

SpecSyndRace == Init /\ [][NextSyndRace]_vars

\* C2: the cap check and the insert of add_syndicate_portion are two steps.
\* A caller that has passed the check inserts its portion whatever the other
\* caller has committed in between: the insert step always adds the checked
\* portion to the table and returns normally.
C2_InsertAfterCheckIsUnconditional ==
    [][\A c \in Callers :
          (pc[c] = "asp_insert" /\ pc'[c] = "idle")
              => /\ portions' = portions \cup
                                    {NewPortion(nextId.portion, frame[c].args)}
                 /\ last' = Returned(c, "add_syndicate_portion", frame[c].args,
                       nextId.portion)]_vars

\* C2 witness: both callers read the same total of the same loan from sessions
\* that expire on commit, both passed the check, both inserted, and the
\* committed total now exceeds the loan amount.
C2_BothPassedAndOversyndicated ==
    /\ \A c \in Callers : pc[c] = "idle" /\ session[c].expire_on_commit
                          /\ frame[c].op = "add_syndicate_portion"
    /\ frame[1].args.loan_id = frame[2].args.loan_id
    /\ frame[1].current_syndicated = frame[2].current_syndicated
    /\ \A c \in Callers :
           ~ExceedsLoanAmount(frame[c].current_syndicated, frame[c].args.amount,
                              loans[frame[c].args.loan_id].amount)
    /\ Cardinality(PortionsOf(frame[1].args.loan_id)) = 2
    /\ TotalSyndicated(frame[1].args.loan_id) > loans[frame[1].args.loan_id].amount


\* remaining_principal of loan l over the committed rows after the step
RemainingPrincipalAfter(l) ==
    remaining_principal(loans'[l], {p \in payments' : p.loan_id = l})

\* the step is a call of op that has returned or raised
Called(op) == last' # last /\ last'.op = op

C4_OverpaymentOrNegativeFails ==
    [][(/\ Called("register_payment")
        /\ LoanExists(last'.args.loan_id)
        /\ \/ last'.args.principal_amount > RemainingPrincipal(last'.args.loan_id)
           \/ NegativeAmounts(last'.args))
       => /\ last'.result = "ValueError"
          /\ payments' = payments
          /\ loans' = loans]_vars

\* C5: when register_payment returns, the loan is PAID_OFF if its remaining
\* principal is <= 0 with the payment recorded, and has the status it had
\* before the call otherwise.
C5_PaidOffWhenFullyPaid ==
    [][(Called("register_payment") /\ last'.result = "ok")
       => LET l == last'.args.loan_id
          IN  IF RemainingPrincipalAfter(l) <= 0
              THEN loans'[l].status = "PAID_OFF"
              ELSE loans'[l].status = loans[l].status]_vars


\* the row of table payments with this id
PaymentById(id) == CHOOSE p \in payments : p.id = id

\* C6: in a schedule generated with frequency_months = 1 the k-th payment date
\* is k-1 calendar months after the start date with the start date's day of
\* month, clamped only where that month is shorter (start 2024-01-31 gives
\* 2024-01-31, 2024-02-29, 2024-03-31).
C6_DayOfMonthRestored ==
    (/\ last.op = "schedule_payments" /\ last.result = "ok"
     /\ last.args.frequency_months = 1)
    => \A k \in 1..Len(last.value) :
           PaymentById(last.value[k]).payment_date =
               _add_months(last.args.start_date, k - 1)

\* the sum of numbers as real numbers, without rounding
RECURSIVE ExactSum(_)
ExactSum(xs) == IF xs = <<>> THEN 0 ELSE xs[1] + ExactSum(Tail(xs))

\* the principal amounts the schedule_payments call of this step generated
GeneratedPrincipal ==
    [k \in 1..Len(last'.value) |->
        (CHOOSE p \in payments' : p.id = last'.value[k]).principal_amount]

\* loan.remaining_principal as caller c's session evaluates it before the step
SeenRemainingPrincipal(c, l) ==
    remaining_principal(loans[l],
                        LoadPayments(session[c], l, View(c)).payments[l].rows)

C8_ScheduleReplaced ==
    [][(Called("schedule_payments") /\ last'.result = "ok")
       => LET l == last'.args.loan_id
              returned == {last'.value[k] : k \in 1..Len(last'.value)}
              old == {p \in payments : p.loan_id = l /\ p.is_scheduled}
          IN  /\ {p.id : p \in {q \in payments' : q.loan_id = l /\ q.is_scheduled}}
                     = returned
              /\ Cardinality(returned) = Len(last'.value)
              /\ last'.replaced = old
              /\ \A p \in old \cap payments' : p.id \in returned
              /\ {p \in payments' : ~p.is_scheduled}
                     = {p \in payments : ~p.is_scheduled}]_vars

\* C8 witness: a second schedule was generated for a loan with another
\* number of payments: the rows of the first one were deleted, the second
\* one is stored, an actual payment is kept.
C8_SecondScheduleStored ==
    /\ last.op = "schedule_payments" /\ last.result = "ok"
    /\ Len(last.value) >= 2
    /\ \E p \in payments : ~p.is_scheduled /\ p.loan_id = last.args.loan_id
    /\ last.replaced # {}
    /\ Cardinality(last.replaced) # Len(last.value)
    /\ \A k \in 1..Len(last.value) : \E p \in payments : p.id = last.value[k]


\* C9: create_loan with maturity_date <= origination_date fails with a
\* ValueError and leaves every table as it was, whatever the other arguments.
C9_BadDatesRejected ==
    [][(/\ Called("create_loan")
        /\ last'.args.maturity_date <= last'.args.origination_date)
       => /\ last'.result = "ValueError"
          /\ loans' = loans /\ portions' = portions /\ payments' = payments]_vars

\* C9 witness: a call whose only fault is maturity_date = origination_date was
\* rejected while a loan was stored.
C9_EqualDatesRejected ==
    /\ last.op = "create_loan" /\ last.result = "ValueError"
    /\ last.args.maturity_date = last.args.origination_date
    /\ last.args.amount > 0
    /\ ~LoanNumberExists(last.args.loan_number)
    /\ Len(loans) = 1

\* C10: with a single caller no two stored loans share a loan_number, and
\* create_loan with a loan_number that is already stored fails with a
\* ValueError and adds no loan.
C10_LoanNumbersUnique ==
    /\ [](\A i, j \in LoanIds :
              i # j => loans[i].loan_number # loans[j].loan_number)
    /\ [][(/\ Called("create_loan")
            /\ \E l \in LoanIds : loans[l].loan_number = last'.args.loan_number)
          => (last'.result = "ValueError" /\ loans' = loans)]_vars

\* C10 witness: with two loans stored, an otherwise valid create_loan with the
\* number of one of them was rejected as a duplicate.
C10_DuplicateRejected ==
    /\ last.op = "create_loan" /\ last.result = "ValueError"
    /\ last.msg = "already exists"
    /\ Len(loans) = 2
    /\ \E l \in LoanIds : loans[l].loan_number = last.args.loan_number


\* C11 as claimed: two callers that both passed the uniqueness check of
\* create_loan both commit: the insert step of a caller that passed the check
\* always stores its loan and returns normally.
C11_BothCommit ==
    [][\A c \in Callers :
          (pc[c] = "cl_insert" /\ pc'[c] = "idle")
              => /\ loans' = Append(loans, NewLoan(frame[c].args))
                 /\ last'.result = "ok"]_vars

\* C11 amended: two callers can both pass the uniqueness check with one
\* loan_number, but only the first insert commits: the second fails on the
\* unique column with an IntegrityError and stores nothing, so no two stored
\* loans ever share a loan_number.
C11_SecondInsertFails ==
    /\ [](\A i, j \in LoanIds :
              i # j => loans[i].loan_number # loans[j].loan_number)
    /\ [][\A c \in Callers :
             (/\ pc[c] = "cl_insert" /\ pc'[c] = "idle"
              /\ \E l \in LoanIds : loans[l].loan_number = frame[c].args.loan_number)
                 => /\ last'.result = "IntegrityError" /\ last'.caller = c
                    /\ loans' = loans]_vars

\* C11 witness: both callers passed the uniqueness check with the same
\* loan_number; the first committed its loan and the second one's insert
\* failed with an IntegrityError.
C11_LoserGotIntegrityError ==
    /\ \A c \in Callers : pc[c] = "idle" /\ frame[c].op = "create_loan"
    /\ frame[1].args.loan_number = frame[2].args.loan_number
    /\ frame[1].args # frame[2].args
    /\ last.op = "create_loan" /\ last.result = "IntegrityError"
    /\ Len(loans) = 1
    /\ loans[1] = NewLoan(frame[3 - last.caller].args)


\* C12: a write operation that fails leaves the store exactly as it was: the
\* failure is raised before any row is added, changed or deleted, in the
\* committed tables and in the transaction the caller's session holds open.
C12_FailureBeforeAnyMutation ==
    [][(last' # last /\ last'.result # "ok")
       => /\ loans' = loans /\ portions' = portions /\ payments' = payments
          /\ covenants' = covenants
          /\ session'[last'.caller].pending = session[last'.caller].pending]_vars


\* C13: register_payment commits atomically: in no committed state, even one
\* of a caller whose session expires on commit, is the payment that brings the
\* remaining principal to <= 0 recorded while the loan is not yet PAID_OFF.
C13_PayoffAndStatusInOneCommit ==
    \A c \in Callers :
        (pc[c] = "rp_status" /\ session[c].expire_on_commit)
            => LET l == frame[c].args.loan_id
               IN  (\E p \in payments : p.id = frame[c].payment_id)
                       /\ RemainingPrincipal(l) <= 0
                   => loans[l].status = "PAID_OFF"


\* C14: PAID_OFF and DEFAULT are terminal: no step of any operation changes
\* the status of a loan that is PAID_OFF or DEFAULT.
C14_TerminalStatusesStay ==
    [][\A l \in LoanIds :
          loans[l].status \in {"PAID_OFF", "DEFAULT"}
              => loans'[l].status = loans[l].status]_vars

\* C15: the transition to PAID_OFF that register_payment makes happens only
\* for a loan whose status is ACTIVE.
C15_PaidOffOnlyFromActive ==
    [][\A l \in LoanIds :
          (/\ Called("register_payment")
           /\ loans'[l].status = "PAID_OFF" /\ loans[l].status # "PAID_OFF")
              => loans[l].status = "ACTIVE"]_vars


\* table payments as caller c's session sees it after the step
ViewAfter(c) ==
    (payments' \ session'[c].pending.deleted) \cup session'[c].pending.added

C17_NotFoundIsOfItsOwnKind ==
    (last.result \notin {"ok", "none"} /\ last.msg = "not found")
        => last.result # "ValueError"


\* the sum of the values of a function, as real numbers
RECURSIVE SumOfValues(_)
SumOfValues(f) ==
    IF DOMAIN f = {} THEN 0
    ELSE LET k == CHOOSE k \in DOMAIN f : TRUE
         IN  f[k] + SumOfValues([x \in DOMAIN f \ {k} |-> f[x]])

\* C18: in every state get_portfolio_overview returns, and covers exactly the
\* ACTIVE loans: their number, the sum of their amounts, retained exposure =
\* size - syndicated, and risk and industry breakdowns that each put every
\* ACTIVE loan in one bucket and sum to the retained exposure.
C18_OverviewCoversActiveLoans ==
    last.op = "get_portfolio_overview"
        => /\ last.result = "ok"
           /\ LET v == last.value
                  act == {l \in LoanIds : loans[l].status = "ACTIVE"}
              IN  /\ v.active_loans_count = Cardinality(act)
                  /\ v.total_portfolio_size =
                         SumOfValues([l \in act |-> loans[l].amount])
                  /\ v.retained_exposure =
                         v.total_portfolio_size - v.total_syndicated
                  /\ SumOfValues(v.risk_breakdown) = v.retained_exposure
                  /\ SumOfValues(v.industry_breakdown) = v.retained_exposure
                  /\ \A l \in act :
                         /\ (loans[l].risk_rating = None)
                                => "Not rated" \in DOMAIN v.risk_breakdown
                         /\ (borrower(loans[l]).industry = None)
                                => "Not specified" \in DOMAIN v.industry_breakdown


\* the amounts of the portions stored for loan l, in id order
PortionAmounts(l) ==
    LET ps == ById(PortionsOf(l)) IN [i \in 1..Len(ps) |-> ps[i].amount]

\* C19: the end-to-end scenario, in units in which the loan is 8 and the
\* third portion would bring the total to 10: on a loan created with amount 8
\* and no status argument, alone in the store, portions of 3 and of 4 are
\* accepted, a third portion of 3 is rejected, a payment of principal 2 leaves
\* remaining_principal = 6, and get_portfolio_overview then reports a retained
\* exposure of 1 (amount - syndicated), whatever was paid.
C19_EndToEndScenario ==
    [][(Len(loans) = 1 /\ loans[1].amount = 8)
       => /\ (Called("add_syndicate_portion")
                 /\ last'.args = [loan_id |-> 1, participant_id |-> 1, amount |-> 3,
                                  participation_date |-> 20240115]
                 /\ PortionAmounts(1) = <<>>)
             => last'.result = "ok" /\ PortionAmounts(1)' = <<3>>
          /\ (Called("add_syndicate_portion") /\ last'.args.loan_id = 1
                 /\ last'.args.amount = 4 /\ PortionAmounts(1) = <<3>>)
             => last'.result = "ok" /\ PortionAmounts(1)' = <<3, 4>>
          /\ (Called("add_syndicate_portion") /\ last'.args.loan_id = 1
                 /\ last'.args.amount = 3 /\ PortionAmounts(1) = <<3, 4>>)
             => last'.result = "ValueError" /\ portions' = portions
          /\ (Called("register_payment") /\ last'.args.loan_id = 1
                 /\ last'.args.principal_amount = 2 /\ PaymentsOf(1) = {})
             => last'.result = "ok" /\ RemainingPrincipalAfter(1) = 6
          /\ (Called("get_portfolio_overview") /\ PortionAmounts(1) = <<3, 4>>)
             => /\ last'.result = "ok"
                /\ last'.value.retained_exposure = 1]_vars


\* the syndication figures get_loan_syndication_status reports for loan l to
\* caller c, before and after the step
LoanFigures(c, l) ==
    LET r == SyndicationStatus(loans, portions, session[c], l)
    IN  <<r.total_syndicated, r.syndication_percentage>>
LoanFiguresAfter(c, l) ==
    LET r == SyndicationStatus(loans', portions', session'[c], l)
    IN  <<r.total_syndicated, r.syndication_percentage>>

\* the figures get_portfolio_overview reports to caller c, before and after
PortfolioFigures(c) ==
    LET r == PortfolioOverview(loans, portions, session[c])
    IN  <<r.total_portfolio_size, r.total_syndicated, r.retained_exposure,
          r.syndication_percentage>>
PortfolioFiguresAfter(c) ==
    LET r == PortfolioOverview(loans', portions', session'[c])
    IN  <<r.total_portfolio_size, r.total_syndicated, r.retained_exposure,
          r.syndication_percentage>>

\* C20 as stated: every successful register_payment leaves the figures
\* get_loan_syndication_status reports for the loan (total_syndicated,
\* syndication_percentage) and the figures get_portfolio_overview reports
\* (size, syndicated, retained exposure, percentage) as they were before it.
C20_PaymentKeepsAllFigures ==
    [][(Called("register_payment") /\ last'.result = "ok")
       => LET c == last'.caller
              l == last'.args.loan_id
          IN  /\ LoanFiguresAfter(c, l) = LoanFigures(c, l)
              /\ PortfolioFiguresAfter(c) = PortfolioFigures(c)]_vars

\* C20, amended: every successful register_payment leaves the loan's own
\* syndication figures as they were, and the portfolio figures too unless the
\* loan was ACTIVE and the payment brought its remaining principal to <= 0.
C20_PaymentKeepsFiguresUnlessPaidOff ==
    [][(Called("register_payment") /\ last'.result = "ok")
       => LET c == last'.caller
              l == last'.args.loan_id
          IN  /\ LoanFiguresAfter(c, l) = LoanFigures(c, l)
              /\ \A k \in LoanIds \ {l} : LoanFiguresAfter(c, k) = LoanFigures(c, k)
              /\ ~(loans[l].status = "ACTIVE" /\ RemainingPrincipalAfter(l) <= 0)
                     => PortfolioFiguresAfter(c) = PortfolioFigures(c)]_vars

\* C20 witness: a payment has paid off a syndicated loan, which the overview
\* no longer counts, next to a loan that is still ACTIVE.
C20_SyndicatedLoanPaidOff ==
    /\ last.op = "register_payment" /\ last.result = "ok"
    /\ LET l == last.args.loan_id
       IN  /\ loans[l].status = "PAID_OFF"
           /\ PortionsOf(l) # {}
           /\ RemainingPrincipal(l) <= 0
           /\ \E k \in LoanIds : loans[k].status = "ACTIVE"
           /\ PortfolioOverview(loans, portions, session[last.caller])
                  .active_loans_count = Len(loans) - 1


\* loan.total_syndicated as caller c's session evaluates it before the step
SeenTotalSyndicated(c, l) ==
    total_syndicated(
        LoadPortions(session[c], l, portions).syndicate_portions[l].rows)

\* loan.remaining_principal as caller c's session evaluates it in the
\* paid-off test of the step, after the commit of the new payment
SeenRemainingPrincipalAfter(c, l) ==
    LET s1 == LoadPayments(session[c], l, View(c))
    IN  remaining_principal(loans[l],
            LoadPayments(Commit(s1), l, payments').payments[l].rows)

\* C21: derived values are never stale: the total_syndicated that the cap
\* check of add_syndicate_portion reads and the remaining_principal that the
\* overpayment check and the paid-off check of register_payment read equal
\* the sums over the rows committed for the loan at that moment, for sessions
\* that expire on commit and for sessions that do not.
C21_DerivedValuesNeverStale ==
    [][LET c == last'.caller
           l == last'.args.loan_id
       IN  /\ (Called("add_syndicate_portion") /\ LoanExists(l))
              => SeenTotalSyndicated(c, l) = TotalSyndicated(l)
           /\ (Called("register_payment") /\ LoanExists(l)
                  /\ ~NegativeAmounts(last'.args))
              => SeenRemainingPrincipal(c, l) = RemainingPrincipal(l)
           /\ (Called("register_payment") /\ last'.result = "ok")
              => SeenRemainingPrincipalAfter(c, l) = RemainingPrincipalAfter(l)]_vars


\* the loans with the amount of loan l set to 0
WithAmountZero(l) == [loans EXCEPT ![l].amount = 0]

\* C22: the percentage guards: get_portfolio_overview returns, with a
\* syndication percentage of 0, when no loan is ACTIVE, and for a loan whose
\* amount is 0 get_loan_syndication_status (for the loan and for each
\* portion), calculate_loan_metrics and get_portfolio_overview compute a
\* percentage of 0, whatever portions the loan has.
C22_PercentageGuards ==
    /\ (last.op = "get_portfolio_overview" /\ ActiveLoans(loans) = <<>>)
           => last.result = "ok" /\ last.value.syndication_percentage = 0
    /\ \A c \in Callers, l \in LoanIds :
           LET z == WithAmountZero(l)
               r == SyndicationStatus(z, portions, session[c], l)
               m == LoanMetrics(z, View(c), portions, session[c], l, 20240101)
               o == PortfolioOverview(
                        [k \in LoanIds |->
                            [z[k] EXCEPT !.status =
                                IF k = l THEN "ACTIVE" ELSE "PENDING"]],
                        portions, session[c])
           IN  /\ r.syndication_percentage = 0
               /\ \A i \in 1..Len(r.portions) : r.portions[i].percentage = 0
               /\ m.syndication_percentage = 0
               /\ o.syndication_percentage = 0

\* C22 witness: the overview was asked for while no loan is ACTIVE and the
\* one stored loan has syndicate portions, which its session has loaded.
C22_OverviewWithoutActiveLoans ==
    /\ last.op = "get_portfolio_overview" /\ last.result = "ok"
    /\ ActiveLoans(loans) = <<>>
    /\ Len(loans) = 1
    /\ Cardinality(PortionsOf(1)) = 2
    /\ session[1].syndicate_portions[1].rows # {}
    /\ last.value.syndication_percentage = 0


\* C23: get_loan_syndication_status on an existing loan returns total_amount =
\* loan.amount, remaining_to_syndicate = amount - total_syndicated, exactly
\* one entry per syndicate portion stored for the loan, and per-portion
\* percentages that add up to syndication_percentage; on an unknown loan_id it
\* fails with the not-found error.
C23_SyndicationStatusReport ==
    [][Called("get_loan_syndication_status")
       => LET l == last'.args.loan_id
              v == last'.value
              ps == ById(PortionsOf(l))
          IN  IF LoanExists(l)
              THEN /\ last'.result = "ok"
                   /\ v.total_amount = loans[l].amount
                   /\ v.remaining_to_syndicate =
                          loans[l].amount - v.total_syndicated
                   /\ Len(v.portions) = Len(ps)
                   /\ \A i \in 1..Len(ps) :
                          v.portions[i].amount = ps[i].amount
                   /\ ExactSum([i \in 1..Len(v.portions) |->
                                   v.portions[i].percentage])
                          = v.syndication_percentage
              ELSE last'.result = "ValueError" /\ last'.msg = "not found"]_vars


\* the actual payments stored for loan l, in id order
ActualPayments(l) == ById({p \in PaymentsOf(l) : ~p.is_scheduled})

\* C24: calculate_loan_metrics on an existing loan returns, with
\* principal_paid, interest_paid and fees_paid the sums over the loan's
\* actual (not scheduled) payments, remaining_principal + principal_paid =
\* original_amount, remaining_principal = Loan.remaining_principal, and
\* days_to_maturity = max(0, maturity_date - today): 0 from the maturity date
\* on, never negative.
C24_LoanMetricsReport ==
    [][(Called("calculate_loan_metrics") /\ LoanExists(last'.args.loan_id))
       => LET l == last'.args.loan_id
              v == last'.value
              ps == ActualPayments(l)
              days == Ordinal(loans[l].maturity_date) - Ordinal(last'.args.today)
          IN  /\ last'.result = "ok"
              /\ v.principal_paid =
                     ExactSum([i \in 1..Len(ps) |-> ps[i].principal_amount])
              /\ v.interest_paid =
                     ExactSum([i \in 1..Len(ps) |-> ps[i].interest_amount])
              /\ v.fees_paid =
                     ExactSum([i \in 1..Len(ps) |-> ps[i].fees_amount])
              /\ v.remaining_principal + v.principal_paid = v.original_amount
              /\ v.original_amount = loans[l].amount
              /\ v.remaining_principal = RemainingPrincipal(l)
              /\ v.days_to_maturity >= 0
              /\ v.days_to_maturity = IF days > 0 THEN days ELSE 0]_vars


\* C25: every stored loan has amount > 0 and origination_date <
\* maturity_date: create_loan rejects amount <= 0 and maturity_date <=
\* origination_date and stores nothing then, and no operation changes the
\* amount or the two dates of a stored loan.
C25_LoansWellFormed ==
    [][/\ \A l \in 1..Len(loans') :
              /\ loans'[l].amount > 0
              /\ loans'[l].origination_date < loans'[l].maturity_date
       /\ \A l \in LoanIds :
              /\ l <= Len(loans')
              /\ loans'[l].amount = loans[l].amount
              /\ loans'[l].origination_date = loans[l].origination_date
              /\ loans'[l].maturity_date = loans[l].maturity_date
       /\ (Called("create_loan")
              /\ (last'.args.amount <= 0
                     \/ MaturityStamp(last'.args) <= OriginationStamp(last'.args)))
          => last'.result = "ValueError" /\ loans' = loans]_vars


\* C26: every stored syndicate portion has amount > 0: add_syndicate_portion
\* called with amount <= 0 adds no portion.
C26_PortionAmountsPositive ==
    \A p \in portions : p.amount > 0


\* C27: every row of table payments, actual or scheduled, has
\* principal_amount >= 0, interest_amount >= 0 and fees_amount >= 0.
C27_PaymentAmountsNotNegative ==
    \A p \in payments :
        p.principal_amount >= 0 /\ p.interest_amount >= 0 /\ p.fees_amount >= 0


\* C28: every stored loan belongs to exactly one existing borrower:
\* create_loan stores no loan whose borrower_id identifies no borrower, so
\* that loan.borrower resolves for every loan.
C28_LoansHaveBorrowers ==
    \A l \in LoanIds :
        Cardinality({b \in Borrowers : b.id = loans[l].borrower_id}) = 1


\* C29 as stated: PENDING is the only initial status: every loan create_loan
\* adds to the store starts in status PENDING.
C29_EveryLoanStartsPending ==
    [][(Called("create_loan") /\ last'.result = "ok")
       => loans'[last'.value].status = "PENDING"]_vars

\* C29, amended: PENDING is the default initial status: a loan create_loan
\* adds starts in the status passed to the call, whichever of the five it is,
\* and in PENDING when the status argument is omitted.
C29_LoanStartsInStatusPassed ==
    [][(Called("create_loan") /\ last'.result = "ok")
       => /\ Len(loans') = Len(loans) + 1
          /\ last'.value = Len(loans')
          /\ loans'[last'.value].status =
                 IF "status" \in DOMAIN last'.args THEN last'.args.status
                 ELSE "PENDING"]_vars

\* C29 witness: a loan was created with no status argument and is PENDING,
\* next to a loan created as PAID_OFF.
C29_DefaultNextToExplicitStatus ==
    /\ last.op = "create_loan" /\ last.result = "ok"
    /\ "status" \notin DOMAIN last.args
    /\ Len(loans) = 2
    /\ loans[2].status = "PENDING"
    /\ loans[1].status = "PAID_OFF"


\* C30: get_all_loans returns exactly the stored loans that match every filter
\* supplied (status, borrower_id, risk_rating); an omitted filter restricts
\* nothing, and with no filter all loans are returned.
C30_LoansMatchEveryFilter ==
    [][Called("get_all_loans")
       => LET a == last'.args
              Matches(l) ==
                  /\ a.status # <<>> => loans[l].status = a.status[1]
                  /\ a.borrower_id # <<>> => loans[l].borrower_id = a.borrower_id[1]
                  /\ a.risk_rating # <<>> => loans[l].risk_rating = a.risk_rating[1]
          IN  /\ last'.result = "ok"
              /\ Range(last'.value) = {l \in LoanIds : Matches(l)}
              /\ Len(last'.value) = Cardinality(Range(last'.value))]_vars


\* one caller: a loan maturing in mid-month and schedules asked for with
\* arguments of every kind: the number of payments omitted, zero, negative or
\* positive, the start before or after maturity
NextSchedArgs ==
    \/ \E a \in CreateArgs({"L1"}, {12}, {20240101}, {20240315}, {"ACTIVE"}) :
           create_loan(1, a)
    \/ \E a \in ScheduleArgs({1}, {20240131}, {1, 2},
                             {<<>>, <<-1>>, <<0>>, <<2>>})
                  \cup ScheduleArgs({1}, {20240520}, {1, 2}, {<<>>}) :
           schedule_payments(1, a)
    \/ close_session(1)

SpecSchedArgs == Init /\ [][NextSchedArgs]_vars

\* the rows of table payments after the step that a schedule_payments call
\* returned, in the order of the returned list
ReturnedPayments ==
    [k \in 1..Len(last'.value) |->
        CHOOSE p \in payments' : p.id = last'.value[k]]

\* C31: a schedule_payments call that returns, returns exactly N payments, all
\* with is_scheduled true and fees 0, where N is num_payments when the argument
\* is given and floor(M / frequency_months) + 1 when it is omitted, M being
\* 12 * (maturity year - start year) + (maturity month - start month).
C31_ReturnsNPayments ==
    [][(Called("schedule_payments") /\ last'.result = "ok")
       => LET a == last'.args
              M == 12 * (Year(loans[a.loan_id].maturity_date) - Year(a.start_date))
                     + (Month(loans[a.loan_id].maturity_date) - Month(a.start_date))
              N == IF a.num_payments # <<>> THEN a.num_payments[1]
                   ELSE FloorDiv(M, a.frequency_months) + 1
          IN  /\ Len(last'.value) = N
              /\ \A k \in 1..Len(last'.value) :
                     /\ ReturnedPayments[k].is_scheduled
                     /\ ReturnedPayments[k].fees_amount = 0]_vars


\* the running balance after period k of a schedule over r with principal
\* amounts ps: the float subtractions of line 350
RECURSIVE RunningBalance(_, _, _)
RunningBalance(r, ps, k) ==
    IF k = 0 THEN r ELSE FSub(RunningBalance(r, ps, k - 1), ps[k])

\* the sum of the first k numbers of ps as real numbers
RECURSIVE ExactSumTo(_, _)
ExactSumTo(ps, k) == IF k = 0 THEN 0 ELSE ExactSumTo(ps, k - 1) + ps[k]

C33_InterestOnOpeningBalance ==
    [][(Called("schedule_payments") /\ last'.result = "ok")
       => LET l  == last'.args.loan_id
              ps == GeneratedPrincipal
          IN  \A k \in 1..Len(last'.value) :
                  ReturnedPayments[k].interest_amount =
                      FDiv(FMul(RunningBalance(RemainingPrincipal(l), ps, k - 1),
                                loans[l].interest_rate), 12)]_vars


\* the calendar dates of these years and months with day 28 to 31
MonthEnds(years, months) ==
    {d \in {Date(y, m, dd) : y \in years, m \in months, dd \in 28..31} :
        \/ Day(d) <= 28
        \/ Month(d) # 2 /\ Day(d) <= 30
        \/ Month(d) \in {1, 3, 5, 7, 8, 10, 12}}

AddMonthsArgs ==
    [date : MonthEnds({1999, 2023, 2099, 9998}, {1, 11, 12}),
     months : {0, 1, 3, 14, 15}]

\* one caller adding months to the last days of months, across the ends of
\* years, into the Februaries of 2000, 2024, 2025 and 2100 and past year 9999
NextAddMonths == \E a \in AddMonthsArgs : call_add_months(1, a)

SpecAddMonths == Init /\ [][NextAddMonths]_vars

\* the Gregorian rule: divisible by 4 and not by 100, or divisible by 400
IsLeapYear(y) == (y % 4 = 0 /\ y % 100 # 0) \/ y % 400 = 0

\* the number of days of month m of year y
LengthOfMonth(y, m) ==
    IF m = 2 THEN (IF IsLeapYear(y) THEN 29 ELSE 28)
    ELSE IF m \in {4, 6, 9, 11} THEN 30 ELSE 31

\* date d is exactly months calendar months after date: the months counted
\* from year 0 differ by months, and the day is the day of date or the last
\* day of the month of d where that month is shorter
MonthsLater(d, date, months) ==
    /\ Month(d) \in 1..12
    /\ Day(d) \in 1..LengthOfMonth(Year(d), Month(d))
    /\ 12 * Year(d) + Month(d) = 12 * Year(date) + Month(date) + months
    /\ Day(d) = Min(Day(date), LengthOfMonth(Year(d), Month(d)))

\* C34 as claimed: _add_months(date, m) for m >= 0 returns a valid calendar
\* date exactly m months later, with the day clamped to the length of the
\* target month, February having 29 days exactly in leap years.
C34_AddMonthsReturnsDate ==
    (last.op = "_add_months" /\ last.args.months >= 0)
    => /\ last.result = "ok"
       /\ MonthsLater(last.value, last.args.date, last.args.months)

\* C34 amended: _add_months(date, m) for m >= 0 returns such a date when the
\* target month is in a year up to 9999, and raises ValueError when it is
\* not.
C34_AddMonthsUpToYear9999 ==
    (last.op = "_add_months" /\ last.args.months >= 0)
    => LET target == 12 * Year(last.args.date) + (Month(last.args.date) - 1)
                       + last.args.months
       IN  IF target < 12 * 10000
           THEN /\ last.result = "ok"
                /\ MonthsLater(last.value, last.args.date, last.args.months)
           ELSE last.result = "ValueError"

\* C34 witness: three months after 2099-11-30 is 2100-02-28, 2100 being no
\* leap year.
C34_ClampedToFebruary2100 ==
    /\ last.op = "_add_months" /\ last.result = "ok"
    /\ last.args = [date |-> 20991130, months |-> 3]
    /\ last.value = 21000228


\* C35: with two callers running register_payment concurrently on the same
\* loan, the recorded actual principal never exceeds the loan amount, whatever
\* the interleaving of the overpayment checks and the inserts: the remaining
\* principal of the committed rows is never negative.
C35_ConcurrentPaymentsWithinAmount ==
    \A l \in LoanIds : RemainingPrincipal(l) >= 0


\* C36: for a single caller, after any sequence of LoanManager operations
\* every loan has 0 <= remaining_principal <= amount.
C36_RemainingPrincipalInRange ==
    \A l \in LoanIds :
        /\ 0 <= RemainingPrincipal(l)
        /\ RemainingPrincipal(l) <= loans[l].amount


\* C37: whenever a schedule_payments call returns normally, whatever its
\* start_date, frequency_months and num_payments, the returned list is not
\* empty and the loan has at least one scheduled payment afterwards: a
\* schedule is never removed without being replaced.
C37_ScheduleNeverLeftEmpty ==
    [][(Called("schedule_payments") /\ last'.result = "ok")
       => /\ Len(last'.value) >= 1
          /\ \E p \in payments' :
                 p.loan_id = last'.args.loan_id /\ p.is_scheduled]_vars


\* C38: when num_payments is omitted, frequency_months >= 1 and start_date is
\* not after the loan's maturity_date, every payment date schedule_payments
\* generates is on or before the maturity_date, and the dates are strictly
\* increasing.
C38_ScheduleEndsByMaturity ==
    [][(/\ Called("schedule_payments") /\ last'.result = "ok"
        /\ last'.args.num_payments = <<>>
        /\ last'.args.frequency_months >= 1
        /\ last'.args.start_date <= loans[last'.args.loan_id].maturity_date)
       => LET n == Len(last'.value)
              maturity_date == loans[last'.args.loan_id].maturity_date
          IN  /\ \A k \in 1..n :
                     ReturnedPayments[k].payment_date <= maturity_date
              /\ \A k \in 1..(n - 1) :
                     ReturnedPayments[k].payment_date <
                         ReturnedPayments[k + 1].payment_date]_vars


\* the payment rows a run of NextTwoLoans stores before it stops scheduling
MaxRowsTwoLoans == 3

\* one caller: loan L1 and then loan L2, syndicate portions, payments and
\* schedules of either, a schedule of the second that fails in _add_months, a
\* status change of the first and a covenant of the second
NextTwoLoans ==
    \/ \E a \in CreateArgs({IF loans = <<>> THEN "L1" ELSE "L2"}, {4},
                           {20240101}, {20260101}, {"ACTIVE"}) :
           create_loan(1, a)
    \/ \E a \in {x \in StatusArgs({"DEFAULT"}) : x.loan_id = 1} :
           update_loan_status(1, a)
    \/ \E a \in PortionArgs({2}) : add_syndicate_portion(1, a)
    \/ \E a \in PaymentArgs(1..MaxLoans, {2}, {0}) : register_payment(1, a)
    \/ /\ NextRowId(payments) <= MaxRowsTwoLoans
       /\ \E a \in ScheduleArgs(1..MaxLoans, {20240131}, {1}, {<<1>>})
                     \cup ScheduleArgs({2}, {20240131}, {120000}, {<<1>>}) :
              schedule_payments(1, a)
    \/ \E a \in CovenantArgs({2}) : add_covenant(1, a)

SpecTwoLoans == Init /\ [][NextTwoLoans]_vars

\* loan.total_syndicated and loan.remaining_principal of loan l as session s
\* evaluates them over the rows it has
DerivedValues(s, lns, tbl, pays, l) ==
    <<total_syndicated(LoadPortions(s, l, tbl).syndicate_portions[l].rows),
      remaining_principal(lns[l], LoadPayments(s, l, pays).payments[l].rows)>>

\* C39: add_syndicate_portion, register_payment, schedule_payments,
\* add_covenant and update_loan_status called for one loan leave every other
\* loan's status, syndicate portions, scheduled and actual payments, covenants,
\* total_syndicated and remaining_principal as they were, in the committed
\* tables and as the caller's session has them.
C39_OtherLoansUntouched ==
    [][(\E op \in {"add_syndicate_portion", "register_payment",
                   "schedule_payments", "add_covenant", "update_loan_status"} :
           Called(op))
       => LET c == last'.caller
          IN  /\ Len(loans') = Len(loans)
              /\ \A b \in LoanIds \ {last'.args.loan_id} :
                    /\ loans'[b] = loans[b]
                    /\ {p \in portions' : p.loan_id = b} = PortionsOf(b)
                    /\ {p \in ViewAfter(c) : p.loan_id = b}
                           = {p \in View(c) : p.loan_id = b}
                    /\ {p \in payments' : p.loan_id = b} = PaymentsOf(b)
                    /\ {v \in covenants' : v.loan_id = b}
                           = {v \in covenants : v.loan_id = b}
                    /\ DerivedValues(session'[c], loans', portions',
                                     ViewAfter(c), b)
                           = DerivedValues(session[c], loans, portions,
                                           View(c), b)]_vars

====
